---- MODULE Spec2Model ----
(***************************************************************************)
(* A model of pneumatic_data's SafeDataProvider (src/src/lib.rs): the      *)
(* cache-aside facade over two process-wide caches (tokens, data) and one   *)
(* RocksDB store per partition.  Every facade call is a thread that takes   *)
(* one step per access to shared state (cache lookup, backend open, store   *)
(* get/put, lock acquisition, cache insert); callers outside the facade     *)
(* hold handles, lock them, mutate them and may panic while holding them;   *)
(* the caches evict idle entries on their own.                              *)
(***************************************************************************)
EXTENDS Integers, Sequences, FiniteSets, TLC

\* ---------------------------------------------------------------- bounds
MaxCalls == 2          \* facade calls in one behaviour of Spec
MaxEnv == 1            \* evictions and caller locks in one behaviour
DataCalls == 3         \* facade calls in one behaviour of SpecData
HandleCalls == 2       \* facade calls in one behaviour of SpecHandle
TokenCalls == 3        \* facade calls in one behaviour of SpecToken
IdleCalls == 2         \* facade calls in one behaviour of SpecIdle
IdleEnv == 2           \* evictions and caller locks in one of SpecIdle
LiveCalls == 2         \* facade calls in one behaviour of SpecLive

Threads == {1, 2}
Keys == {1}
Partitions == {"A", "B"}

\* ---------------------------------------------------------------- values
None == 0              \* Option::None / no thread / no handle
Ext == -1              \* a lock holder outside the facade

\* Token values; 0 stands for a value the codec refuses to encode.
Tokens == {0, 1, 2}
\* Byte strings put by save_data callers: 5 decodes to no Token, 11 does.
DataArgs == {5, 11}
\* Structured values handed to save_typed_data.
TypedArgs == {0, 1}

Fail == -2

\* serialize_to_bytes_rmp: Err for the unencodable value, else its encoding.
serialize_to_bytes_rmp(x) == IF x = 0 THEN Fail ELSE x + 10

\* deserialize_rmp_to::<Token>: Err unless the bytes are a Token's encoding.
deserialize_rmp_to(b) == IF b \in {11, 12} THEN b - 10 ELSE Fail

Bytes == DataArgs \cup {serialize_to_bytes_rmp(x) : x \in Tokens \ {0}}

Gets == {"get_token", "get_data"}
Saves == {"save_token", "save_data", "save_typed_data", "save_locked_data"}
Locking == {"save_token", "save_locked_data"}

VARIABLES
  store,       \* store[p][k]: RocksDB contents of partition p (None: absent)
  tokenCache,  \* TOKEN_CACHE: key -> handle (None: no entry)
  dataCache,   \* DATA_CACHE: key -> handle (None: no entry)
  heap,        \* the Arc<RwLock<_>> objects: kind, val, holder, poisoned
  dbOpen,      \* dbOpen[p]: the threads holding a RocksDb of partition p open
               \* (RocksDB's LOCK file allows one at a time)
  call,        \* call[t]: the facade call thread t is in, and its locals
  obs,         \* obs[t]: what the current call of t has observed and done
  pinned,      \* pinned[k]: handle of the last save_token(k) still standing
  saved,       \* saved[k]: the save_data(k) no other save of k has followed
  durable,     \* durable[p][k]: the token a returned save_token left in p
  calls,       \* facade calls the behaviour may still start
  envs         \* evictions and caller locks it may still take

vars == <<store, tokenCache, dataCache, heap, dbOpen, call, obs, pinned,
          saved, durable, calls, envs>>

Handles == 1..Len(heap)
TokenHandles == {h \in Handles : heap[h].kind = "token"}

NewHandle == Len(heap) + 1
Alloc(hp, kind, v) ==
  Append(hp, [kind |-> kind, val |-> v, holder |-> None, poisoned |-> FALSE])

NoToken == [p \in Partitions |-> [k \in Keys |-> None]]

NoSave == [part |-> "-", val |-> 0, by |-> 0, returned |-> FALSE, got |-> FALSE]

IdleCall == [pc |-> "idle", op |-> "none", key |-> 0, part |-> "A", arg |-> 0,
             tmp |-> 0, res |-> "none", ret |-> 0]

\* What the current call of a thread has seen and done so far: whether its
\* cache lookup hit, how many calls it made to the backend factory and the
\* backend, whether the handle it was given was poisoned when it was called,
\* the content of the handle it returned, the value a read-your-write
\* caller expects of it, and the cache entry its insert replaced.
NoObs == [hit |-> FALSE, nDb |-> 0, argPoisoned |-> FALSE, retVal |-> 0,
          expect |-> None, replaced |-> None]

Init ==
  /\ store \in [Partitions -> [Keys -> {None, 11}]]
  /\ tokenCache = [k \in Keys |-> None]
  /\ dataCache = [k \in Keys |-> None]
  /\ heap = <<>>
  /\ dbOpen = [p \in Partitions |-> {}]
  /\ call = [t \in Threads |-> IdleCall]
  /\ obs = [t \in Threads |-> NoObs]
  /\ pinned = [k \in Keys |-> None]
  /\ saved = [k \in Keys |-> NoSave]
  /\ durable = NoToken
  /\ calls = MaxCalls
  /\ envs = MaxEnv

\* ------------------------------------------------------------- helpers
CacheOf(o) == IF o \in {"get_token", "save_token"} THEN tokenCache ELSE dataCache

\* A lookup that never finds the entry.
CacheGetMissing(o, k) == None

\* cache.get(key) of a get: the entry, or None.
CacheGet(o, k) == CacheOf(o)[k]

\* A call returns: Result r, with handle h for Ok of a get.
Return(c, r, h) == [c EXCEPT !.pc = "done", !.res = r, !.ret = h]

\* Box<dyn Db> dropped: the RocksDb this thread opened is closed.
CloseDb(t) == [p \in Partitions |-> dbOpen[p] \ {t}]

\* A write guard that is leaked instead of dropped: the lock stays held.
UnlockLeaked(hp, t) == hp

\* RwLockWriteGuard dropped by thread t.
Unlock(hp, t) ==
  [h \in 1..Len(hp) |-> IF hp[h].holder = t THEN [hp[h] EXCEPT !.holder = None]
                        ELSE hp[h]]

ArgsOf(o) == IF o = "save_data" THEN DataArgs ELSE TypedArgs

\* A save_typed_data that stores its argument without encoding it.
BytesToPutRaw(c) ==
  CASE c.op \in {"save_data", "save_typed_data"} -> c.arg
    [] OTHER -> c.tmp

\* The bytes a save is about to put: its argument, the encoding of its
\* argument (Fail when serialization fails), or the bytes it serialized
\* from the handle under the write lock.
BytesToPut(c) ==
  CASE c.op = "save_data" -> c.arg
    [] c.op = "save_typed_data" -> serialize_to_bytes_rmp(c.arg)
    [] OTHER -> c.tmp

\* saved[k] after some save put key k: a save_data's put starts a new record,
\* any other put ends the standing one.
SavedAfterPut(t, c) ==
  [saved EXCEPT ![c.key] =
     IF c.op = "save_data"
     THEN [part |-> c.part, val |-> c.arg, by |-> t, returned |-> FALSE,
           got |-> FALSE]
     ELSE NoSave]

\* The standing record of key c.key is of the save_data call c of thread t.
Mine(t, c) ==
  c.op = "save_data" /\ saved[c.key].by = t /\ ~saved[c.key].returned

\* A put of key k ends what running get_data calls of k were expecting.
ObsAfterPut(t, k) ==
  [u \in Threads |->
     IF u = t THEN [obs[u] EXCEPT !.nDb = @ + 1]
     ELSE IF call[u].key = k /\ call[u].pc # "done"
          THEN [obs[u] EXCEPT !.expect = None]
     ELSE obs[u]]

\* ------------------------------------------------------------- facade
\* The locals of a call just invoked.
NewCall(o, k, p, a) ==
  [pc |-> "new", op |-> o, key |-> k, part |-> p, arg |-> a, tmp |-> 0,
   res |-> "none", ret |-> 0]

\* Thread t is free to take a call. Threads are interchangeable, so a call
\* goes to the lowest free thread.
Free(t) ==
  /\ call[t].pc \in {"idle", "done"}
  /\ \A u \in Threads : u < t => call[u].pc \notin {"idle", "done"}
  /\ calls > 0

\* An open that succeeds while another RocksDb of the partition is open.
get_dbShared(t, c) ==
  \/ /\ dbOpen' = [dbOpen EXCEPT ![c.part] = @ \cup {t}]
     /\ call' = [call EXCEPT ![t] =
                   [c EXCEPT !.pc = CASE c.op \in Gets -> "read"
                                      [] c.op \in Locking -> "lock"
                                      [] OTHER -> "put"]]
  \/ /\ call' = [call EXCEPT ![t] = Return(c, "FromStore", 0)]
     /\ dbOpen' = dbOpen

\* get_db_factory().get_db(partition_id)?: RocksDb::new calls
\* DBWithThreadMode::open on the partition's path. RocksDB takes the path's
\* LOCK file for as long as the RocksDb lives, so the open gives Err while
\* another RocksDb of the partition is open; it may also give Err for
\* reasons of the storage itself. Err returns FromStore from the call.
get_db(t, c) ==
  \/ /\ dbOpen[c.part] = {}
     /\ dbOpen' = [dbOpen EXCEPT ![c.part] = @ \cup {t}]
     /\ call' = [call EXCEPT ![t] =
                   [c EXCEPT !.pc = CASE c.op \in Gets -> "read"
                                      [] c.op \in Locking -> "lock"
                                      [] OTHER -> "put"]]
  \/ /\ call' = [call EXCEPT ![t] = Return(c, "FromStore", 0)]
     /\ dbOpen' = dbOpen

\* A caller invokes get_token / get_data on thread t: cache.get(key); a hit
\* returns the cached handle.
GetCall(t, o, k, p) ==
  LET c == NewCall(o, k, p, 0)
      e == CacheGet(o, k)
      next == o = "get_data" /\ saved[k].returned /\ ~saved[k].got
              /\ saved[k].part = p
      o0 == [NoObs EXCEPT !.expect = CASE next -> saved[k].val
                                       [] o = "get_token" -> durable[p][k]
                                       [] OTHER -> None]
  IN /\ Free(t)
     /\ o \in Gets
     /\ IF e # None
        THEN /\ call' = [call EXCEPT ![t] = Return(c, "Ok", e)]
             /\ obs' = [obs EXCEPT ![t] =
                          [o0 EXCEPT !.hit = TRUE, !.retVal = heap[e].val]]
        ELSE /\ call' = [call EXCEPT ![t] = [c EXCEPT !.pc = "open"]]
             /\ obs' = [obs EXCEPT ![t] = o0]
     /\ saved' = IF next THEN [saved EXCEPT ![k].got = TRUE] ELSE saved
     /\ calls' = calls - 1
     /\ UNCHANGED <<store, tokenCache, dataCache, heap, dbOpen, pinned,
                    durable, envs>>

\* A caller invokes a save on thread t; every save starts by opening the
\* partition's store. The handle given to save_token / save_locked_data is
\* one the caller holds (fresh = Fail) or one it builds for the call,
\* Arc::new(RwLock::new(fresh)).
SaveCall(t, o, k, p, a, fresh) ==
  LET h == IF fresh = Fail THEN a ELSE NewHandle
  IN /\ Free(t)
     /\ o \in Saves
     /\ IF o \in Locking
        THEN IF fresh = Fail THEN a \in TokenHandles
             ELSE a = 0 /\ fresh \in Tokens
        ELSE a \in ArgsOf(o) /\ fresh = Fail
     /\ get_db(t, NewCall(o, k, p, h))
     /\ heap' = IF fresh = Fail THEN heap ELSE Alloc(heap, "token", fresh)
     /\ obs' = [obs EXCEPT ![t] =
                  [NoObs EXCEPT !.nDb = 1,
                     !.argPoisoned = (o \in Locking /\ fresh = Fail
                                      /\ heap[a].poisoned)]]
     /\ calls' = calls - 1
     /\ UNCHANGED <<store, tokenCache, dataCache, pinned, saved, durable,
                    envs>>

\* The miss path of a get opens the partition's store.
OpenDb(t) ==
  /\ call[t].pc = "open"
  /\ get_db(t, call[t])
  /\ obs' = [obs EXCEPT ![t].nDb = @ + 1]
  /\ UNCHANGED <<store, tokenCache, dataCache, heap, pinned, saved,
                 durable, calls, envs>>

\* A store that reports no key absent.
AbsentNever(v) == FALSE

\* store.get(key) gave Ok(None).
Absent(v) == v = None

\* A get_data that drops its RocksDb as soon as it has read, as
\* get_token_from_db does.
ReadDbReleasing(t) ==
  LET c == call[t]
      v == store[c.part][c.key]
      tok == deserialize_rmp_to(v)
  IN /\ c.pc = "read"
     /\ obs' = [obs EXCEPT ![t].nDb = @ + 1]
     /\ dbOpen' = CloseDb(t)
     /\ \/ /\ Absent(v)
           /\ call' = [call EXCEPT ![t] = Return(c, "DataNotFound", 0)]
        \/ /\ ~Absent(v)
           /\ call' = [call EXCEPT ![t] =
                         CASE c.op = "get_data" ->
                                [c EXCEPT !.pc = "fill", !.tmp = v]
                           [] tok = Fail ->
                                Return(c, "DeserializationError", 0)
                           [] OTHER -> [c EXCEPT !.pc = "fill", !.tmp = tok]]
        \/ call' = [call EXCEPT ![t] = Return(c, "FromStore", 0)]
     /\ UNCHANGED <<store, tokenCache, dataCache, heap, pinned, saved,
                    durable, calls, envs>>

\* A token load that puts a default token in place of bytes it cannot
\* decode.
ReadDbDefaulting(t) ==
  LET c == call[t]
      v == store[c.part][c.key]
      tok == deserialize_rmp_to(v)
  IN /\ c.pc = "read"
     /\ obs' = [obs EXCEPT ![t].nDb = @ + 1]
     /\ \/ /\ Absent(v)
           /\ call' = [call EXCEPT ![t] = Return(c, "DataNotFound", 0)]
           /\ dbOpen' = CloseDb(t)
        \/ /\ ~Absent(v)
           /\ IF c.op = "get_data"
              THEN /\ call' = [call EXCEPT ![t].pc = "fill", ![t].tmp = v]
                   /\ dbOpen' = dbOpen
              ELSE /\ call' = [call EXCEPT ![t].pc = "fill",
                                 ![t].tmp = IF tok = Fail THEN 1 ELSE tok]
                   /\ dbOpen' = CloseDb(t)
        \/ /\ call' = [call EXCEPT ![t] = Return(c, "FromStore", 0)]
           /\ dbOpen' = CloseDb(t)
     /\ UNCHANGED <<store, tokenCache, dataCache, heap, pinned, saved,
                    durable, calls, envs>>

\* db.get_data(key)? / get_token_from_db: store.get, and for a token the
\* decoding; get_token_from_db drops its RocksDb when it returns.
ReadDb(t) ==
  LET c == call[t]
      v == store[c.part][c.key]
      tok == deserialize_rmp_to(v)
  IN /\ c.pc = "read"
     /\ obs' = [obs EXCEPT ![t].nDb = @ + 1]
     /\ \/ /\ Absent(v)
           /\ call' = [call EXCEPT ![t] = Return(c, "DataNotFound", 0)]
           /\ dbOpen' = CloseDb(t)
        \/ /\ ~Absent(v)
           /\ IF c.op = "get_data"
              THEN /\ call' = [call EXCEPT ![t].pc = "fill", ![t].tmp = v]
                   /\ dbOpen' = dbOpen
              ELSE /\ call' = [call EXCEPT ![t] =
                                 IF tok = Fail
                                 THEN Return(c, "DeserializationError", 0)
                                 ELSE [c EXCEPT !.pc = "fill", !.tmp = tok]]
                   /\ dbOpen' = CloseDb(t)
        \/ /\ call' = [call EXCEPT ![t] = Return(c, "FromStore", 0)]
           /\ dbOpen' = CloseDb(t)
     /\ UNCHANGED <<store, tokenCache, dataCache, heap, pinned, saved,
                    durable, calls, envs>>

\* A miss path that goes to its second lookup without inserting what it
\* loaded.
FillSkipped(t) ==
  /\ call[t].pc = "fill"
  /\ call' = [call EXCEPT ![t].pc = "reget"]
  /\ UNCHANGED <<store, tokenCache, dataCache, heap, dbOpen, obs, pinned,
                 saved, durable, calls, envs>>

\* put_in_*_cache(key, Arc::new(RwLock::new(loaded))) of a get's miss path.
Fill(t) ==
  LET c == call[t]
  IN /\ c.pc = "fill"
     /\ IF c.op = "get_token"
        THEN /\ heap' = Alloc(heap, "token", c.tmp)
             /\ tokenCache' = [tokenCache EXCEPT ![c.key] = NewHandle]
             /\ dataCache' = dataCache
        ELSE /\ heap' = Alloc(heap, "data", c.tmp)
             /\ dataCache' = [dataCache EXCEPT ![c.key] = NewHandle]
             /\ tokenCache' = tokenCache
     /\ call' = [call EXCEPT ![t].pc = "reget"]
     /\ UNCHANGED <<store, dbOpen, obs, pinned, saved, durable, calls, envs>>

\* cache.get(key).ok_or(DataError::CacheError), then the call returns.
Reget(t) ==
  LET c == call[t]
      e == CacheOf(c.op)[c.key]
  IN /\ c.pc = "reget"
     /\ IF e # None
        THEN /\ call' = [call EXCEPT ![t] = Return(c, "Ok", e)]
             /\ obs' = [obs EXCEPT ![t].retVal = heap[e].val]
        ELSE /\ call' = [call EXCEPT ![t] = Return(c, "CacheError", 0)]
             /\ obs' = obs
     /\ dbOpen' = CloseDb(t)
     /\ UNCHANGED <<store, tokenCache, dataCache, heap, pinned, saved,
                    durable, calls, envs>>

\* A write() that never reports the poison.
PoisonIgnored(h) == FALSE

\* write() returned Err: the lock is poisoned.
Poisoned(h) == heap[h].poisoned

\* A save that goes on to serialize without taking the write lock.
LockSkipped(t) ==
  /\ call[t].pc = "lock"
  /\ call' = [call EXCEPT ![t].pc = "ser"]
  /\ UNCHANGED <<store, tokenCache, dataCache, heap, dbOpen, obs, pinned,
                 saved, durable, calls, envs>>

\* token_ref.write() / data.write(): waits while the lock is held; a
\* poisoned lock makes the call return Poisoned.
Lock(t) ==
  LET c == call[t]
      h == c.arg
  IN /\ c.pc = "lock"
     /\ heap[h].holder = None
     /\ IF Poisoned(h)
        THEN /\ call' = [call EXCEPT ![t] = Return(c, "Poisoned", 0)]
             /\ heap' = heap
             /\ dbOpen' = CloseDb(t)
        ELSE /\ call' = [call EXCEPT ![t].pc = "ser"]
             /\ heap' = [heap EXCEPT ![h].holder = t]
             /\ dbOpen' = dbOpen
     /\ UNCHANGED <<store, tokenCache, dataCache, obs, pinned, saved,
                    durable, calls, envs>>

\* serialize_to_bytes_rmp(token.deref()) / (write_data.deref()): the value
\* behind the handle is serialized; Err returns SerializationError.
Serialize(t) ==
  LET c == call[t]
      b == serialize_to_bytes_rmp(heap[c.arg].val)
  IN /\ c.pc = "ser"
     /\ IF b = Fail
        THEN /\ call' = [call EXCEPT ![t] = Return(c, "SerializationError", 0)]
             /\ heap' = Unlock(heap, t)
             /\ dbOpen' = CloseDb(t)
        ELSE /\ call' = [call EXCEPT ![t].pc = "put", ![t].tmp = b]
             /\ UNCHANGED <<heap, dbOpen>>
     /\ UNCHANGED <<store, tokenCache, dataCache, obs, pinned, saved,
                    durable, calls, envs>>

\* serialize_to_bytes_rmp(data) of save_typed_data gave Err: the call
\* returns SerializationError.
PutUnencodable(t) ==
  LET c == call[t]
  IN /\ BytesToPut(c) = Fail
     /\ call' = [call EXCEPT ![t] = Return(c, "SerializationError", 0)]
     /\ heap' = Unlock(heap, t)
     /\ dbOpen' = CloseDb(t)
     /\ UNCHANGED <<store, tokenCache, dataCache, obs, pinned, saved,
                    durable>>

\* A save that drops the error of the put and goes on to its cache insert.
PutErrSwallowed(t) ==
  LET c == call[t]
  IN /\ BytesToPut(c) # Fail
     /\ call' = [call EXCEPT ![t].pc = "insert", ![t].tmp = BytesToPut(c)]
     /\ heap' = IF c.op = "save_token" THEN Unlock(heap, t) ELSE heap
     /\ obs' = [obs EXCEPT ![t].nDb = @ + 1]
     /\ UNCHANGED <<store, tokenCache, dataCache, dbOpen, pinned, saved,
                    durable>>

\* A save that caches the bytes before it learns that the put failed.
PutErrCached(t) ==
  LET c == call[t]
  IN /\ BytesToPut(c) # Fail
     /\ call' = [call EXCEPT ![t] = Return(c, "FromStore", 0)]
     /\ heap' = Alloc(Unlock(heap, t), "data", BytesToPut(c))
     /\ dataCache' = [dataCache EXCEPT ![c.key] = NewHandle]
     /\ dbOpen' = CloseDb(t)
     /\ obs' = [obs EXCEPT ![t].nDb = @ + 1]
     /\ UNCHANGED <<store, tokenCache, pinned, saved, durable>>

\* store.put(key, data) gave Err: `?` returns FromStore from the call.
PutErr(t) ==
  LET c == call[t]
  IN /\ BytesToPut(c) # Fail
     /\ call' = [call EXCEPT ![t] = Return(c, "FromStore", 0)]
     /\ heap' = Unlock(heap, t)
     /\ dbOpen' = CloseDb(t)
     /\ obs' = [obs EXCEPT ![t].nDb = @ + 1]
     /\ UNCHANGED <<store, tokenCache, dataCache, pinned, saved, durable>>

\* store.put(key, data) gave Ok. RocksDb::save_token drops its write guard
\* on return; save_locked_data keeps its guard until the call returns.
PutOk(t) ==
  LET c == call[t]
      b == BytesToPut(c)
  IN /\ b # Fail
     /\ store' = [store EXCEPT ![c.part][c.key] = b]
     /\ call' = [call EXCEPT ![t].pc = "insert", ![t].tmp = b]
     /\ heap' = IF c.op = "save_token" THEN Unlock(heap, t) ELSE heap
     /\ obs' = ObsAfterPut(t, c.key)
     /\ saved' = SavedAfterPut(t, c)
     /\ durable' = [durable EXCEPT ![c.part][c.key] = None]
     /\ UNCHANGED <<tokenCache, dataCache, dbOpen, pinned>>

\* Serialization of save_typed_data's argument and db.save_data(key, ..)?.
Put(t) ==
  /\ call[t].pc = "put"
  /\ (PutUnencodable(t) \/ PutErr(t) \/ PutOk(t))
  /\ UNCHANGED <<calls, envs>>

\* put_in_token_cache(key, token_ref): the caller's handle itself.
InsertToken(t) ==
  LET c == call[t]
  IN /\ tokenCache' = [tokenCache EXCEPT ![c.key] = c.arg]
     /\ pinned' = [pinned EXCEPT ![c.key] = c.arg]
     /\ UNCHANGED <<heap, dataCache>>

\* An insert of save_locked_data that caches the locked value itself
\* instead of the bytes it was serialized to.
InsertDataRaw(t) ==
  LET c == call[t]
      v == IF c.op = "save_locked_data" THEN heap[c.arg].val ELSE c.tmp
  IN /\ dataCache' = [dataCache EXCEPT ![c.key] = NewHandle]
     /\ heap' = Alloc(Unlock(heap, t), "data", v)
     /\ UNCHANGED <<tokenCache, pinned>>

\* An insert that writes the bytes into the handle the cache already holds.
InsertDataReusing(t) ==
  LET c == call[t]
      old == dataCache[c.key]
  IN /\ IF old = None
        THEN /\ dataCache' = [dataCache EXCEPT ![c.key] = NewHandle]
             /\ heap' = Alloc(Unlock(heap, t), "data", c.tmp)
        ELSE /\ dataCache' = dataCache
             /\ heap' = [Unlock(heap, t) EXCEPT ![old].val = c.tmp]
     /\ UNCHANGED <<tokenCache, pinned>>

\* put_in_data_cache(key, Arc::new(RwLock::new(bytes))): a new handle.
InsertData(t) ==
  LET c == call[t]
  IN /\ dataCache' = [dataCache EXCEPT ![c.key] = NewHandle]
     /\ heap' = Alloc(Unlock(heap, t), "data", c.tmp)
     /\ UNCHANGED <<tokenCache, pinned>>

\* durable after save c returned Ok: a save_token leaves in its partition
\* the token it serialized, unless the handle was changed since.
DurableAfterInsert(c) ==
  IF c.op = "save_token"
  THEN [durable EXCEPT ![c.part][c.key] =
          IF serialize_to_bytes_rmp(heap[c.arg].val) = c.tmp
          THEN heap[c.arg].val ELSE None]
  ELSE durable

\* The cache insert that ends a save; Ok(()) and the call returns.
Insert(t) ==
  LET c == call[t]
  IN /\ c.pc = "insert"
     /\ IF c.op = "save_token" THEN InsertToken(t) ELSE InsertData(t)
     /\ call' = [call EXCEPT ![t] = Return(c, "Ok", 0)]
     /\ obs' = [u \in Threads |->
                  IF u = t THEN [obs[u] EXCEPT !.replaced = CacheOf(c.op)[c.key]]
                  ELSE IF Mine(t, c) \/ call[u].key # c.key \/ call[u].pc = "done"
                       THEN obs[u]
                       ELSE [obs[u] EXCEPT !.expect = None]]
     /\ saved' = [saved EXCEPT ![c.key] =
                   IF Mine(t, c) THEN [@ EXCEPT !.returned = TRUE] ELSE NoSave]
     /\ durable' = DurableAfterInsert(c)
     /\ dbOpen' = CloseDb(t)
     /\ UNCHANGED <<store, calls, envs>>

\* save_data as a relation: every outcome one step of thread t's save_data
\* call with locals c can have in the current state, as the call's locals
\* and the state it leaves. pc "new": get_db(partition_id)?; "put":
\* db.save_data(key, &data)?; "insert": put_in_data_cache and Ok(()).
SaveDataStep(t, c) ==
  LET Out(c2, s2, d2, h2, o2) ==
        [call |-> c2, store |-> s2, dataCache |-> d2, heap |-> h2,
         dbOpen |-> o2]
  IN CASE c.pc = "new" ->
            {Out(Return(c, "FromStore", 0), store, dataCache, heap, dbOpen)}
            \cup (IF dbOpen[c.part] = {}
                  THEN {Out([c EXCEPT !.pc = "put"], store, dataCache, heap,
                            [dbOpen EXCEPT ![c.part] = @ \cup {t}])}
                  ELSE {})
       [] c.pc = "put" ->
            {Out(Return(c, "FromStore", 0), store, dataCache, heap, CloseDb(t)),
             Out([c EXCEPT !.pc = "insert", !.tmp = c.arg],
                 [store EXCEPT ![c.part][c.key] = c.arg], dataCache, heap,
                 dbOpen)}
       [] c.pc = "insert" ->
            {Out(Return(c, "Ok", 0), store,
                 [dataCache EXCEPT ![c.key] = NewHandle],
                 Alloc(heap, "data", c.tmp), CloseDb(t))}
       [] OTHER -> {}

\* -------------------------------------------------- callers and caches
\* An eviction that tears the evicted value down instead of dropping only
\* the cache's reference to it.
EvictDestroying(k) ==
  /\ envs > 0
  /\ \/ /\ tokenCache[k] # None
        /\ tokenCache' = [tokenCache EXCEPT ![k] = None]
        /\ pinned' = [pinned EXCEPT ![k] = None]
        /\ heap' = [heap EXCEPT ![tokenCache[k]].val = 0]
        /\ dataCache' = dataCache
     \/ /\ dataCache[k] # None
        /\ dataCache' = [dataCache EXCEPT ![k] = None]
        /\ heap' = [heap EXCEPT ![dataCache[k]].val = 0]
        /\ UNCHANGED <<tokenCache, pinned>>
  /\ envs' = envs - 1
  /\ UNCHANGED <<store, dbOpen, call, obs, saved, durable, calls>>

\* time_to_idle: a cache drops an entry that has been idle.
Evict(k) ==
  /\ envs > 0
  /\ \/ /\ tokenCache[k] # None
        /\ tokenCache' = [tokenCache EXCEPT ![k] = None]
        /\ pinned' = [pinned EXCEPT ![k] = None]
        /\ dataCache' = dataCache
     \/ /\ dataCache[k] # None
        /\ dataCache' = [dataCache EXCEPT ![k] = None]
        /\ UNCHANGED <<tokenCache, pinned>>
  /\ envs' = envs - 1
  /\ UNCHANGED <<store, heap, dbOpen, call, obs, saved, durable, calls>>

\* A caller takes the write lock of a handle it holds.
ExtLock(h) ==
  /\ envs > 0
  /\ heap[h].holder = None
  /\ ~heap[h].poisoned
  /\ heap' = [heap EXCEPT ![h].holder = Ext]
  /\ envs' = envs - 1
  /\ UNCHANGED <<store, tokenCache, dataCache, dbOpen, call, obs, pinned,
                 saved, durable, calls>>

\* The caller leaves the value at v and drops the guard; when it panics
\* while holding the guard the lock is released poisoned.
ExtUnlock(h, v, panic) ==
  /\ heap[h].holder = Ext
  /\ v \in (IF heap[h].kind = "token" THEN Tokens ELSE Bytes)
  /\ heap' = [heap EXCEPT ![h] = [@ EXCEPT !.holder = None, !.val = v,
                                            !.poisoned = panic]]
  /\ IF heap[h].kind = "token" /\ v # heap[h].val
     THEN /\ durable' = NoToken
          /\ obs' = [u \in Threads |->
                       IF call[u].op = "get_token" /\ call[u].pc # "done"
                       THEN [obs[u] EXCEPT !.expect = None] ELSE obs[u]]
     ELSE UNCHANGED <<durable, obs>>
  /\ UNCHANGED <<store, tokenCache, dataCache, dbOpen, call, pinned, saved,
                 calls, envs>>

Next ==
  \/ \E t \in Threads, o \in Gets, k \in Keys, p \in Partitions :
        GetCall(t, o, k, p)
  \/ \E t \in Threads, k \in Keys, p \in Partitions, a \in DataArgs :
        SaveCall(t, "save_data", k, p, a, Fail)
  \/ \E t \in Threads, k \in Keys, p \in Partitions, a \in TypedArgs :
        SaveCall(t, "save_typed_data", k, p, a, Fail)
  \/ \E t \in Threads, o \in Locking, k \in Keys, p \in Partitions :
        \/ \E h \in TokenHandles : SaveCall(t, o, k, p, h, Fail)
        \/ \E v \in Tokens : SaveCall(t, o, k, p, 0, v)
  \/ \E t \in Threads : OpenDb(t)
  \/ \E t \in Threads : ReadDb(t)
  \/ \E t \in Threads : Fill(t)
  \/ \E t \in Threads : Reget(t)
  \/ \E t \in Threads : Lock(t)
  \/ \E t \in Threads : Serialize(t)
  \/ \E t \in Threads : Put(t)
  \/ \E t \in Threads : Insert(t)
  \/ \E k \in Keys : Evict(k)

Spec == Init /\ [][Next]_vars

\* The data workload: get_data and save_data callers only, over a store
\* that earlier runs of the process may have filled.
InitData ==
  /\ store \in [Partitions -> [Keys -> {None, 11}]]
  /\ tokenCache = [k \in Keys |-> None]
  /\ dataCache = [k \in Keys |-> None]
  /\ heap = <<>>
  /\ dbOpen = [p \in Partitions |-> {}]
  /\ call = [t \in Threads |-> IdleCall]
  /\ obs = [t \in Threads |-> NoObs]
  /\ pinned = [k \in Keys |-> None]
  /\ saved = [k \in Keys |-> NoSave]
  /\ durable = NoToken
  /\ calls = DataCalls
  /\ envs = MaxEnv

NextData ==
  \/ \E t \in Threads, k \in Keys, p \in Partitions :
        GetCall(t, "get_data", k, p)
  \/ \E t \in Threads, k \in Keys, p \in Partitions, a \in DataArgs :
        SaveCall(t, "save_data", k, p, a, Fail)
  \/ \E t \in Threads : OpenDb(t)
  \/ \E t \in Threads : ReadDb(t)
  \/ \E t \in Threads : Fill(t)
  \/ \E t \in Threads : Reget(t)
  \/ \E t \in Threads : Put(t)
  \/ \E t \in Threads : Insert(t)
  \/ \E k \in Keys : Evict(k)

SpecData == InitData /\ [][NextData]_vars

\* The handle workload: callers that keep token handles, lock them, mutate
\* them in place and may panic while holding them, beside the operations
\* that take or return such handles, all in partition A.
InitHandle ==
  /\ \E v \in {None, 11} :
        store = [p \in Partitions |-> [k \in Keys |-> IF p = "A" THEN v ELSE None]]
  /\ tokenCache = [k \in Keys |-> None]
  /\ dataCache = [k \in Keys |-> None]
  /\ heap = <<>>
  /\ dbOpen = [p \in Partitions |-> {}]
  /\ call = [t \in Threads |-> IdleCall]
  /\ obs = [t \in Threads |-> NoObs]
  /\ pinned = [k \in Keys |-> None]
  /\ saved = [k \in Keys |-> NoSave]
  /\ durable = NoToken
  /\ calls = HandleCalls
  /\ envs = MaxEnv

NextHandle ==
  \/ \E t \in Threads, k \in Keys : GetCall(t, "get_token", k, "A")
  \/ \E t \in Threads, o \in Locking, k \in Keys, p \in {"A"} :
        \/ \E h \in TokenHandles : SaveCall(t, o, k, p, h, Fail)
        \/ \E v \in Tokens : SaveCall(t, o, k, p, 0, v)
  \/ \E t \in Threads : OpenDb(t)
  \/ \E t \in Threads : ReadDb(t)
  \/ \E t \in Threads : Fill(t)
  \/ \E t \in Threads : Reget(t)
  \/ \E t \in Threads : Lock(t)
  \/ \E t \in Threads : Serialize(t)
  \/ \E t \in Threads : Put(t)
  \/ \E t \in Threads : Insert(t)
  \/ \E k \in Keys : Evict(k)
  \/ \E h \in Handles : ExtLock(h)
  \/ \E h \in Handles, panic \in BOOLEAN :
        \E v \in (IF heap[h].kind = "token" THEN Tokens ELSE Bytes) :
           ExtUnlock(h, v, panic)

SpecHandle == InitHandle /\ [][NextHandle]_vars

\* The token workload: get_token and save_token callers in both
\* partitions, over a store that earlier runs of the process may have filled.
InitToken ==
  /\ store \in [Partitions -> [Keys -> {None, 11}]]
  /\ tokenCache = [k \in Keys |-> None]
  /\ dataCache = [k \in Keys |-> None]
  /\ heap = <<>>
  /\ dbOpen = [p \in Partitions |-> {}]
  /\ call = [t \in Threads |-> IdleCall]
  /\ obs = [t \in Threads |-> NoObs]
  /\ pinned = [k \in Keys |-> None]
  /\ saved = [k \in Keys |-> NoSave]
  /\ durable = NoToken
  /\ calls = TokenCalls
  /\ envs = MaxEnv

NextToken ==
  \/ \E t \in Threads, k \in Keys, p \in Partitions :
        GetCall(t, "get_token", k, p)
  \/ \E t \in Threads, k \in Keys, p \in Partitions :
        \/ \E h \in TokenHandles : SaveCall(t, "save_token", k, p, h, Fail)
        \/ \E v \in Tokens : SaveCall(t, "save_token", k, p, 0, v)
  \/ \E t \in Threads : OpenDb(t)
  \/ \E t \in Threads : ReadDb(t)
  \/ \E t \in Threads : Fill(t)
  \/ \E t \in Threads : Reget(t)
  \/ \E t \in Threads : Lock(t)
  \/ \E t \in Threads : Serialize(t)
  \/ \E t \in Threads : Put(t)
  \/ \E t \in Threads : Insert(t)
  \/ \E k \in Keys : Evict(k)

SpecToken == InitToken /\ [][NextToken]_vars

\* The single-caller workload: one thread calls the gets, save_data and
\* save_token, one call after the other, and between its calls locks and
\* changes handles it holds; the caches evict at any time.
Solo == CHOOSE t \in Threads : \A u \in Threads : t <= u

InitIdle ==
  /\ store \in [Partitions -> [Keys -> {None, 11}]]
  /\ tokenCache = [k \in Keys |-> None]
  /\ dataCache = [k \in Keys |-> None]
  /\ heap = <<>>
  /\ dbOpen = [p \in Partitions |-> {}]
  /\ call = [t \in Threads |-> IdleCall]
  /\ obs = [t \in Threads |-> NoObs]
  /\ pinned = [k \in Keys |-> None]
  /\ saved = [k \in Keys |-> NoSave]
  /\ durable = NoToken
  /\ calls = IdleCalls
  /\ envs = IdleEnv

NextIdle ==
  \/ \E o \in Gets, k \in Keys, p \in Partitions : GetCall(Solo, o, k, p)
  \/ \E k \in Keys, p \in Partitions, a \in DataArgs :
        SaveCall(Solo, "save_data", k, p, a, Fail)
  \/ \E k \in Keys, p \in Partitions :
        \/ \E h \in TokenHandles : SaveCall(Solo, "save_token", k, p, h, Fail)
        \/ \E v \in Tokens : SaveCall(Solo, "save_token", k, p, 0, v)
  \/ OpenDb(Solo)
  \/ ReadDb(Solo)
  \/ Fill(Solo)
  \/ Reget(Solo)
  \/ Lock(Solo)
  \/ Serialize(Solo)
  \/ Put(Solo)
  \/ Insert(Solo)
  \/ \E k \in Keys : Evict(k)
  \/ \E h \in Handles : call[Solo].pc \in {"idle", "done"} /\ ExtLock(h)
  \/ \E h \in Handles :
        \E v \in (IF heap[h].kind = "token" THEN Tokens ELSE Bytes) :
           ExtUnlock(h, v, FALSE)

SpecIdle == InitIdle /\ [][NextIdle]_vars

\* The workload under fair scheduling: callers of all six operations in
\* both partitions, and callers that lock the handles they hold. A thread
\* inside a facade call eventually takes its next step when it can, and a
\* caller that holds a handle's write lock eventually releases it (cleanly
\* or by panicking).
InitLive ==
  /\ store \in [Partitions -> [Keys -> {None, 11}]]
  /\ tokenCache = [k \in Keys |-> None]
  /\ dataCache = [k \in Keys |-> None]
  /\ heap = <<>>
  /\ dbOpen = [p \in Partitions |-> {}]
  /\ call = [t \in Threads |-> IdleCall]
  /\ obs = [t \in Threads |-> NoObs]
  /\ pinned = [k \in Keys |-> None]
  /\ saved = [k \in Keys |-> NoSave]
  /\ durable = NoToken
  /\ calls = LiveCalls
  /\ envs = MaxEnv

Running(t) ==
  \/ OpenDb(t) \/ ReadDb(t) \/ Fill(t) \/ Reget(t)
  \/ Lock(t) \/ Serialize(t) \/ Put(t) \/ Insert(t)

Releasing ==
  \E h \in Handles, panic \in BOOLEAN : ExtUnlock(h, heap[h].val, panic)

NextLive ==
  \/ \E t \in Threads, o \in Gets, k \in Keys, p \in Partitions :
        GetCall(t, o, k, p)
  \/ \E t \in Threads, k \in Keys, p \in Partitions, a \in DataArgs :
        SaveCall(t, "save_data", k, p, a, Fail)
  \/ \E t \in Threads, k \in Keys, p \in Partitions, a \in TypedArgs :
        SaveCall(t, "save_typed_data", k, p, a, Fail)
  \/ \E t \in Threads, o \in Locking, k \in Keys, p \in Partitions :
        \/ \E h \in TokenHandles : SaveCall(t, o, k, p, h, Fail)
        \/ \E v \in Tokens : SaveCall(t, o, k, p, 0, v)
  \/ \E t \in Threads : Running(t)
  \/ \E h \in Handles : ExtLock(h)
  \/ Releasing

SpecLive ==
  /\ InitLive /\ [][NextLive]_vars
  /\ \A t \in Threads : WF_vars(Running(t))
  /\ WF_vars(Releasing)

\* ------------------------------------------------------------- claims
Done(t) == call[t].pc = "done"

\* Thread t takes a step of its call in this transition.
Steps(t) == call'[t] # call[t]

\* C1: partition isolation. A get on partition p of a key that was never
\* written in p never returns Ok (it returns no handle saved through
\* another partition); this layer deletes nothing, so the key was written
\* in p exactly when p's store holds it.
C1_PartitionIsolation ==
  \A t \in Threads :
    (Done(t) /\ call[t].op \in Gets /\ call[t].res = "Ok")
      => store[call[t].part][call[t].key] # None

\* C2: read-your-write for data. The first get_data(k, p) called after a
\* save_data(k, v, p) returned Ok, with no put of key k in between or during
\* the get, does not return DataNotFound, and when it returns Ok the handle
\* holds v.
C2_ReadYourWrite ==
  \A t \in Threads :
    (Done(t) /\ call[t].op = "get_data" /\ obs[t].expect # None)
      => /\ call[t].res # "DataNotFound"
         /\ call[t].res = "Ok" => obs[t].retVal = obs[t].expect

\* C3: shared handle identity under a racing miss. Two get_token calls of
\* the same key and partition that overlapped, both missed the cache and
\* both returned Ok, with no eviction and no caller lock in the behaviour,
\* returned the same handle.
C3_SharedHandleIdentity ==
  \A t, u \in Threads :
    (/\ t # u /\ Done(t) /\ Done(u)
     /\ call[t].op = "get_token" /\ call[u].op = "get_token"
     /\ call[t].key = call[u].key /\ call[t].part = call[u].part
     /\ call[t].res = "Ok" /\ call[u].res = "Ok"
     /\ ~obs[t].hit /\ ~obs[u].hit
     /\ envs = MaxEnv)
      => call[t].ret = call[u].ret

CachesUnchanged == tokenCache' = tokenCache /\ dataCache' = dataCache

\* C4: write-through ordering. A save reaches its cache insert only by the
\* step in which its put succeeded (the store then holds the bytes the save
\* is about to cache, and no cache has changed yet), and a step of a save
\* changes a cache only when it is that insert.
C4_WriteThroughOrdering ==
  [][\A t \in Threads :
       (Steps(t) /\ call'[t].op \in Saves) =>
         /\ call'[t].pc = "insert" =>
              /\ call[t].pc = "put"
              /\ store'[call'[t].part][call'[t].key] = call'[t].tmp
              /\ CachesUnchanged
         /\ ~CachesUnchanged => call[t].pc = "insert"]_vars

\* A save_token has returned Ok: the cache holds its handle and the store
\* holds the handle's encoding.
C4_Witness ==
  \E t \in Threads :
    /\ Done(t) /\ call[t].op = "save_token" /\ call[t].res = "Ok"
    /\ tokenCache[call[t].key] = call[t].arg
    /\ store[call[t].part][call[t].key] = call[t].tmp

\* C5: a failed save changes no cache. The only step of a save that changes
\* a cache is the last step of a save that returns Ok; every step of a save
\* that returns an error, and every step before it, leaves both caches as
\* they were.
C5_FailedSaveChangesNoCache ==
  [][\A t \in Threads :
       (Steps(t) /\ call'[t].op \in Saves /\ ~CachesUnchanged)
         => call'[t].pc = "done" /\ call'[t].res = "Ok"]_vars

\* A save_data whose put failed has returned FromStore while the cache
\* still holds the older handle of the key, with other bytes.
C5_Witness ==
  \E t \in Threads :
    /\ Done(t) /\ call[t].op = "save_data" /\ call[t].res = "FromStore"
    /\ obs[t].nDb = 2
    /\ dataCache[call[t].key] # None
    /\ heap[dataCache[call[t].key]].val # call[t].arg

\* C6: a cache hit needs no backend. A get called while its cache holds an
\* entry for the key returns Ok with that entry in the same step, having
\* called neither the backend factory nor the backend, whoever holds the
\* partition's store open.
C6_CacheHitNeedsNoBackend ==
  [][\A t \in Threads :
       (/\ Steps(t) /\ call[t].pc \in {"idle", "done"}
        /\ call'[t].op \in Gets
        /\ CacheOf(call'[t].op)[call'[t].key] # None) =>
         /\ call'[t].pc = "done" /\ call'[t].res = "Ok"
         /\ call'[t].ret = CacheOf(call'[t].op)[call'[t].key]
         /\ obs'[t].nDb = 0
         /\ dbOpen' = dbOpen /\ store' = store]_vars

\* A get has hit the cache and returned Ok without a backend call while
\* another thread holds the partition's store open, so that an open of it
\* would have failed.
C6_Witness ==
  \E t \in Threads :
    /\ Done(t) /\ call[t].op \in Gets /\ obs[t].hit
    /\ call[t].res = "Ok" /\ obs[t].nDb = 0
    /\ dbOpen[call[t].part] \ {t} # {}

\* C7: not-found propagation. A get returns DataNotFound only from its
\* store read, after its cache lookup missed, when the partition's store
\* holds no value for the key, and it has then created no cache entry; a
\* store read that finds no value returns DataNotFound (or the store's own
\* error), and one that finds a value never returns DataNotFound.
C7_NotFoundPropagation ==
  [][\A t \in Threads :
       (Steps(t) /\ call'[t].op \in Gets) =>
         LET c == call[t]
             d == call'[t]
             v == store[d.part][d.key]
         IN /\ d.res = "DataNotFound" =>
                 /\ c.pc = "read" /\ v = None /\ ~obs[t].hit
                 /\ CachesUnchanged
            /\ (c.pc = "read" /\ v = None) =>
                 d.res \in {"DataNotFound", "FromStore"}
            /\ (c.pc = "read" /\ v # None) => d.res # "DataNotFound"]_vars

\* A get has returned DataNotFound and its cache has no entry for the key.
C7_Witness ==
  \E t \in Threads :
    /\ Done(t) /\ call[t].op \in Gets /\ call[t].res = "DataNotFound"
    /\ CacheOf(call[t].op)[call[t].key] = None
    /\ store[call[t].part][call[t].key] = None

\* C8: poisoned-lock propagation. No step clears the poison of a lock; a
\* save_token or save_locked_data that has opened the partition's store and
\* finds its handle's lock poisoned returns Poisoned in that step, putting
\* nothing and changing no cache; and such a call, given a handle that was
\* poisoned when it was called, returns Poisoned, or FromStore when the
\* store could not be opened.
C8_PoisonedLockPropagation ==
  /\ [](\A t \in Threads :
          (Done(t) /\ call[t].op \in Locking /\ obs[t].argPoisoned) =>
            /\ call[t].res \in {"Poisoned", "FromStore"}
            /\ call[t].res = "FromStore" => obs[t].nDb = 1)
  /\ [][/\ \A h \in Handles : heap[h].poisoned => heap'[h].poisoned
        /\ \A t \in Threads :
             (Steps(t) /\ call[t].pc = "lock"
              /\ heap[call[t].arg].poisoned) =>
               /\ call'[t].pc = "done" /\ call'[t].res = "Poisoned"
               /\ store' = store /\ CachesUnchanged]_vars

\* A save on a handle that a caller's panic had poisoned has returned
\* Poisoned.
C8_Witness ==
  \E t \in Threads :
    /\ Done(t) /\ call[t].op \in Locking /\ obs[t].argPoisoned
    /\ call[t].res = "Poisoned"

\* C9: save_token shares the caller's handle. From the return of a
\* save_token(k, h, p) until the entry of k is evicted or another save_token
\* replaces it, the token-cache entry of k is h (so get_token returns h).
C9_SaveTokenSharesHandle ==
  \A k \in Keys : pinned[k] # None => tokenCache[k] = pinned[k]

\* C10: save_data never reuses a handle. The insert of a save_data puts in
\* the data-cache a handle that did not exist before, other than the entry
\* it replaces and holding the saved bytes, and leaves every existing
\* handle as it was.
C10_SaveDataNewHandle ==
  [][\A t \in Threads :
       (Steps(t) /\ call[t].pc = "insert" /\ call[t].op = "save_data") =>
         LET k == call[t].key
             new == dataCache'[k]
         IN /\ new \notin Handles
            /\ new # dataCache[k]
            /\ new \in 1..Len(heap')
            /\ heap'[new].val = call[t].arg
            /\ \A h \in Handles : heap'[h] = heap[h]]_vars

\* A save_data has replaced the handle the data-cache held for the key by
\* another one, and the replaced handle still holds its older bytes.
C10_Witness ==
  \E t \in Threads :
    /\ Done(t) /\ call[t].op = "save_data" /\ call[t].res = "Ok"
    /\ obs[t].replaced # None
    /\ dataCache[call[t].key] # obs[t].replaced
    /\ heap[dataCache[call[t].key]].val = call[t].arg
    /\ heap[obs[t].replaced].val # call[t].arg

\* C11: token durability. A get_token(k, p) called after a save_token(k, h,
\* p) returned Ok with token t, with no put of key k in partition p and no
\* in-place change of a token since, whatever was evicted or done in other
\* partitions, returns neither DataNotFound nor DeserializationError, and
\* when it returns Ok the handle holds t. (The store drops no key: see
\* C11_NothingDeleted.)
C11_TokenDurability ==
  \A t \in Threads :
    (Done(t) /\ call[t].op = "get_token" /\ obs[t].expect # None)
      => /\ call[t].res \notin {"DataNotFound", "DeserializationError"}
         /\ call[t].res = "Ok" => obs[t].retVal = obs[t].expect

\* No step removes a key from a partition's store.
C11_NothingDeleted ==
  [][\A p \in Partitions, k \in Keys :
       store[p][k] # None => store'[p][k] # None]_vars

\* The value a get of kind o loads from stored bytes b.
Loaded(o, b) == IF o = "get_token" THEN deserialize_rmp_to(b) ELSE b

\* C12: idle expiry is non-destructive. The step that drops a cache entry
\* changes no handle (content, lock state), no store and no call; a get
\* called while its cache has no entry for the key (as after an eviction)
\* returns nothing in that step but goes on to open the partition's store;
\* and when such a get of a single caller returns Ok it has called the
\* backend, and the handle it returns is the newest one, created by this
\* call, holding what the partition's store holds for the key.
C12_IdleExpiryNonDestructive ==
  /\ [](LET c == call[Solo]
        IN (c.pc = "done" /\ c.op \in Gets /\ c.res = "Ok"
            /\ ~obs[Solo].hit) =>
             /\ obs[Solo].nDb = 2
             /\ c.ret = Len(heap)
             /\ obs[Solo].retVal = Loaded(c.op, store[c.part][c.key]))
  /\ [][/\ (\E k \in Keys :
              \/ tokenCache[k] # None /\ tokenCache'[k] = None
              \/ dataCache[k] # None /\ dataCache'[k] = None) =>
             heap' = heap /\ store' = store /\ call' = call
        /\ \A t \in Threads :
             (/\ Steps(t) /\ call[t].pc \in {"idle", "done"}
              /\ call'[t].op \in Gets
              /\ CacheOf(call'[t].op)[call'[t].key] = None) =>
               /\ call'[t].pc = "open" /\ ~obs'[t].hit
               /\ heap' = heap /\ CachesUnchanged
        /\ \A t \in Threads :
             (Steps(t) /\ call[t].pc = "fill") =>
               /\ CacheOf(call[t].op)'[call[t].key] = Len(heap')
               /\ Len(heap') = Len(heap) + 1
               /\ heap'[Len(heap')].val = call[t].tmp
               /\ \A h \in Handles : heap'[h] = heap[h]]_vars

\* A data handle was cached, its entry was evicted and the caller changed
\* the handle in place (it holds bytes no store holds); the next get_data
\* has loaded the key again and returned another handle, which holds the
\* stored bytes.
C12_Witness ==
  LET c == call[Solo]
  IN /\ c.pc = "done" /\ c.op = "get_data" /\ c.res = "Ok" /\ ~obs[Solo].hit
     /\ envs = 0
     /\ \E h \in Handles :
          /\ h # c.ret /\ heap[h].kind = "data"
          /\ heap[h].holder = None
          /\ \A p \in Partitions : store[p][c.key] # heap[h].val

\* C13: CacheError is distinct from DataNotFound. A get returns CacheError
\* only from the lookup that follows its insert, when that lookup finds no
\* entry, after its first lookup missed and it called the backend; it
\* reaches that lookup only by the step that inserted a new handle holding
\* the value it loaded, and loaded that value only from a key the
\* partition's store holds; so whenever a get has returned CacheError the
\* store holds the key, and its first lookup was no hit.
C13_CacheErrorDistinct ==
  /\ [](\A t \in Threads :
          (Done(t) /\ call[t].res = "CacheError") =>
            /\ call[t].op \in Gets /\ ~obs[t].hit
            /\ store[call[t].part][call[t].key] # None)
  /\ [][\A t \in Threads :
          Steps(t) =>
            LET c == call[t]
                d == call'[t]
            IN /\ d.res = "CacheError" =>
                    /\ c.pc = "reget" /\ CacheOf(c.op)[c.key] = None
                    /\ ~obs[t].hit /\ obs[t].nDb = 2
               /\ d.pc = "reget" =>
                    /\ c.pc = "fill"
                    /\ CacheOf(c.op)'[c.key] \notin Handles \cup {None}
                    /\ heap'[CacheOf(c.op)'[c.key]].val = c.tmp
               /\ d.pc = "fill" =>
                    /\ c.pc = "read" /\ store[c.part][c.key] # None
                    /\ d.tmp = Loaded(c.op, store[c.part][c.key])
                    /\ d.tmp # Fail]_vars

\* A get whose entry was evicted between its insert and its second lookup
\* has returned CacheError; the store holds the key.
C13_Witness ==
  \E t \in Threads :
    /\ Done(t) /\ call[t].op \in Gets /\ call[t].res = "CacheError"
    /\ obs[t].nDb = 2
    /\ store[call[t].part][call[t].key] # None
    /\ CacheOf(call[t].op)[call[t].key] = None

\* C14: save_locked_data persists and caches a snapshot. The call holds the
\* handle's write lock from its put to its return, and no step changes a
\* value whose lock a call holds; its put stores under k the serialization
\* of the locked value; its insert makes the data-cache entry of k a new
\* handle, other than the one it was given, holding the bytes it put,
\* which the store still holds, and touches no store and no other cache;
\* and a later in-place change of a handle changes no store, no cache and
\* no other handle.
C14_LockedDataSnapshot ==
  [][/\ \A h \in Handles :
          /\ heap[h].holder \in Threads => heap'[h].val = heap[h].val
          /\ heap'[h].val # heap[h].val =>
               /\ store' = store /\ CachesUnchanged
               /\ \A g \in Handles \ {h} : heap'[g] = heap[g]
               /\ Len(heap') = Len(heap)
     /\ \A t \in Threads :
          (Steps(t) /\ call[t].op = "save_locked_data") =>
            LET c == call[t]
                b == serialize_to_bytes_rmp(heap[c.arg].val)
                new == dataCache'[c.key]
            IN /\ (c.pc = "put" /\ call'[t].pc = "insert") =>
                    /\ heap[c.arg].holder = t /\ heap'[c.arg].holder = t
                    /\ store'[c.part][c.key] = b
                    /\ CachesUnchanged
               /\ c.pc = "insert" =>
                    /\ heap[c.arg].holder = t
                    /\ call'[t].res = "Ok"
                    /\ c.tmp = b
                    /\ store[c.part][c.key] = b /\ store' = store
                    /\ new \notin Handles /\ new # c.arg
                    /\ heap'[new].val = b
                    /\ tokenCache' = tokenCache
                    /\ heap'[c.arg].val = heap[c.arg].val]_vars

\* A save_locked_data has returned Ok and its handle was changed in place
\* afterwards: the data-cache entry and the store still hold the bytes of
\* the value that was saved.
C14_Witness ==
  \E t \in Threads :
    LET c == call[t]
    IN /\ Done(t) /\ c.op = "save_locked_data" /\ c.res = "Ok"
       /\ heap[c.arg].holder = None
       /\ serialize_to_bytes_rmp(heap[c.arg].val) # c.tmp
       /\ dataCache[c.key] \notin {None, c.arg}
       /\ heap[dataCache[c.key]].val = c.tmp
       /\ store[c.part][c.key] = c.tmp

\* The save_data call that save_typed_data call c is to behave as.
AsSaveData(c) ==
  IF c.op = "save_typed_data"
  THEN [c EXCEPT !.op = "save_data", !.arg = serialize_to_bytes_rmp(c.arg)]
  ELSE c

\* The locals and the state a step leaves, a typed call read as save_data.
LeftAs(t) ==
  [call |-> AsSaveData(call'[t]), store |-> store', dataCache |-> dataCache',
   heap |-> heap', dbOpen |-> dbOpen']

\* C15: save_typed_data is save_data on the encoded bytes. For an encodable
\* x with bytes b, every step of save_typed_data(k, x, p) is a step that
\* save_data(k, b, p) can take from the same state (same result, store,
\* data-cache, handles and open stores; token-cache untouched), every step
\* save_data(k, b, p) can take from a state is one save_typed_data(k, x, p)
\* can take, and save_data's own steps are those same steps. When the
\* serialization fails the call returns SerializationError in that step
\* with no put and no cache change; serialization is tried once the
\* partition's store is open, so such a call returns SerializationError, or
\* FromStore from the failed open.
C15_TypedDataRefinesSaveData ==
  /\ [](\A t \in Threads :
          LET c == call[t]
          IN /\ (c.op = "save_typed_data" /\ c.pc \in {"put", "insert"}
                 /\ serialize_to_bytes_rmp(c.arg) # Fail) =>
                  \A out \in SaveDataStep(t, AsSaveData(c)) :
                    ENABLED (/\ Put(t) \/ Insert(t)
                             /\ LeftAs(t) = out)
             /\ Free(t) =>
                  \A k \in Keys, p \in Partitions, x \in TypedArgs :
                    serialize_to_bytes_rmp(x) # Fail =>
                      \A out \in SaveDataStep(t,
                                 NewCall("save_data", k, p,
                                         serialize_to_bytes_rmp(x))) :
                        ENABLED (/\ SaveCall(t, "save_typed_data", k, p, x,
                                             Fail)
                                 /\ LeftAs(t) = out)
             /\ (Done(t) /\ c.op = "save_typed_data"
                 /\ serialize_to_bytes_rmp(c.arg) = Fail) =>
                  \/ c.res = "SerializationError" /\ obs[t].nDb = 1
                  \/ c.res = "FromStore" /\ obs[t].nDb = 1)
  /\ [][\A t \in Threads :
          (Steps(t) /\ call'[t].op \in {"save_data", "save_typed_data"}) =>
            LET d == call'[t]
                c == IF call[t].pc \in {"idle", "done"}
                     THEN NewCall(d.op, d.key, d.part, d.arg) ELSE call[t]
            IN IF AsSaveData(c).arg # Fail
               THEN /\ LeftAs(t) \in SaveDataStep(t, AsSaveData(c))
                    /\ tokenCache' = tokenCache
               ELSE c.pc = "put" =>
                      /\ d.pc = "done" /\ d.res = "SerializationError"
                      /\ store' = store /\ CachesUnchanged
                      /\ heap' = heap]_vars

\* A save_typed_data of an encodable value has returned Ok: the store and
\* the new data-cache entry hold its encoding, which is not the value.
C15_Witness ==
  \E t \in Threads :
    LET c == call[t]
    IN /\ Done(t) /\ c.op = "save_typed_data" /\ c.res = "Ok"
       /\ c.tmp = serialize_to_bytes_rmp(c.arg) /\ c.tmp # c.arg
       /\ store[c.part][c.key] = c.tmp
       /\ dataCache[c.key] # None
       /\ heap[dataCache[c.key]].val = c.tmp

\* C16: tokens and data share a partition's keyspace, their caches are
\* separate. For a single caller: a get_data(k, p) that misses the
\* data-cache after save_token(k, h, p) returned Ok with token v (nothing
\* put under k in p since) does not return DataNotFound, and on Ok returns
\* v's serialized bytes; a get_token(k, p) that misses the token-cache
\* after save_data(k, b, p) returned Ok (no save of k since) returns
\* DeserializationError (or the store's error) when b decodes to no token,
\* leaving the token-cache without an entry, and on Ok returns b decoded.
\* The step that finds undecodable bytes returns DeserializationError and
\* creates no handle and no cache entry; the insert of a save changes only
\* the cache of its own kind.
C16_SharedKeyspaceSeparateCaches ==
  /\ [](LET c == call[Solo]
            tok == durable[c.part][c.key]
            sd == saved[c.key]
        IN /\ (c.pc = "done" /\ c.op = "get_data" /\ ~obs[Solo].hit
               /\ tok # None) =>
                /\ c.res # "DataNotFound"
                /\ c.res = "Ok" =>
                     obs[Solo].retVal = serialize_to_bytes_rmp(tok)
           /\ (c.pc = "done" /\ c.op = "get_token" /\ ~obs[Solo].hit
               /\ sd.returned /\ sd.part = c.part) =>
                IF deserialize_rmp_to(sd.val) = Fail
                THEN /\ c.res \in {"DeserializationError", "FromStore"}
                     /\ tokenCache[c.key] = None
                ELSE /\ c.res \notin {"DeserializationError", "DataNotFound"}
                     /\ c.res = "Ok" =>
                          obs[Solo].retVal = deserialize_rmp_to(sd.val))
  /\ [][\A t \in Threads :
          Steps(t) =>
            LET c == call[t]
                d == call'[t]
            IN /\ (c.pc = "read" /\ c.op = "get_token"
                   /\ store[c.part][c.key] # None
                   /\ deserialize_rmp_to(store[c.part][c.key]) = Fail) =>
                    d.pc = "done"
                      /\ d.res \in {"DeserializationError", "FromStore"}
               /\ d.res = "DeserializationError" =>
                    /\ c.pc = "read" /\ c.op = "get_token"
                    /\ deserialize_rmp_to(store[c.part][c.key]) = Fail
                    /\ heap' = heap /\ CachesUnchanged /\ store' = store
               /\ c.pc = "insert" =>
                    IF c.op = "save_token" THEN dataCache' = dataCache
                    ELSE tokenCache' = tokenCache]_vars

\* After save_data(k, b, p) returned Ok with bytes that decode to no token,
\* a get_token(k, p) has missed the token-cache, found the bytes and
\* returned DeserializationError; the data-cache holds the bytes, the
\* token-cache nothing.
C16_Witness ==
  LET c == call[Solo]
  IN /\ c.pc = "done" /\ c.op = "get_token"
     /\ c.res = "DeserializationError"
     /\ saved[c.key].returned /\ saved[c.key].part = c.part
     /\ store[c.part][c.key] = saved[c.key].val
     /\ tokenCache[c.key] = None
     /\ dataCache[c.key] # None

\* After save_token(k, h, p) returned Ok, a get_data(k, p) has missed the
\* data-cache and returned the token's serialized bytes.
C16_TokenBytesServed ==
  LET c == call[Solo]
  IN /\ c.pc = "done" /\ c.op = "get_data" /\ c.res = "Ok"
     /\ ~obs[Solo].hit
     /\ durable[c.part][c.key] # None
     /\ obs[Solo].retVal = serialize_to_bytes_rmp(durable[c.part][c.key])
     /\ tokenCache[c.key] # None

\* C17: save_token lock scope. save_token holds the handle's write lock when
\* it serializes the token and keeps it through the put; no step changes a
\* value whose lock a call holds, so the bytes it puts are still the
\* serialization of the token when the put completes; the step in which
\* the put completes releases the lock, and the token-cache insert runs
\* without it.
C17_SaveTokenLockScope ==
  [][/\ \A h \in Handles :
          heap[h].holder \in Threads => heap'[h].val = heap[h].val
     /\ \A t \in Threads :
          (Steps(t) /\ call[t].op = "save_token") =>
            LET c == call[t]
                d == call'[t]
                h == c.arg
            IN /\ c.pc = "ser" =>
                    /\ heap[h].holder = t
                    /\ d.pc = "put" =>
                         /\ d.tmp = serialize_to_bytes_rmp(heap[h].val)
                         /\ heap'[h].holder = t
               /\ c.pc = "put" =>
                    /\ heap[h].holder = t
                    /\ c.tmp = serialize_to_bytes_rmp(heap[h].val)
                    /\ heap'[h].holder = None
                    /\ d.pc = "insert" =>
                         /\ store'[c.part][c.key] =
                              serialize_to_bytes_rmp(heap'[h].val)
                         /\ CachesUnchanged
               /\ c.pc = "insert" =>
                    /\ heap[h].holder # t
                    /\ tokenCache'[c.key] = h]_vars

\* A save_token has completed its put and not yet inserted; a caller has
\* taken the released write lock of the handle in between.
C17_Witness ==
  \E t \in Threads :
    LET c == call[t]
    IN /\ c.op = "save_token" /\ c.pc = "insert"
       /\ store[c.part][c.key] = c.tmp
       /\ heap[c.arg].holder = Ext
       /\ tokenCache[c.key] # c.arg

C20_RunToCompletion ==
  /\ [](\A t \in Threads :
          LET held == {h \in Handles : heap[h].holder = t}
          IN /\ Cardinality(held) <= 1
             /\ call[t].pc \in {"idle", "done", "lock", "open", "read",
                                 "fill", "reget"} => held = {}
             /\ held # {} => held = {call[t].arg})
  /\ \A t \in Threads :
       (call[t].pc \notin {"idle", "done"}) ~> (call[t].pc = "done")

\* A save waits for the write lock of a handle that another facade call
\* holds.
C20_Witness ==
  \E t, u \in Threads :
    /\ t # u
    /\ call[t].pc = "lock" /\ call[t].op \in Locking
    /\ call[u].op \in Locking
    /\ heap[call[t].arg].holder = u
====
